---- MODULE Spec2Model ----
(***************************************************************************)
(* Room coordinator of the Socket.io chat server (src/server/index.js).    *)
(* State: the two server maps connectedUsers and chatRooms, the socket.io  *)
(* adapter's room membership (socket.join / socket.leave), the set of live *)
(* sockets (io.sockets.sockets) and the emissions of the event handler     *)
(* that ran last.  Every handler is a pure operator on a record of that    *)
(* state, so that two handlers can be compared on the same state.          *)
(* Timestamps (joinedAt, createdAt, timestamp) and the human readable      *)
(* message texts of the payloads are left out.                             *)
(***************************************************************************)
EXTENDS Integers, Sequences, FiniteSets, TLC

\* ------------------------------------------------------------------ bounds
\* number of rooms that generateRoomId hands out in one run
MaxRooms == 2

\* socket ids of the clients that connect; an id is never reused after its
\* socket has closed
Conns == {"A", "B", "C"}

\* the nickname the client of a socket sends as data.user (two clients share
\* one: the server does not keep nicknames unique)
NicksOf(c) == IF c = "B" THEN {"bob"} ELSE {"ann"}

\* room names a client may send as data.roomName, as character sequences
RoomNames == { <<"a">>, <<"b">> }

RoomIds == 1..MaxRooms

\* names a client may send as data.roomName: blank, padded, in either case
NameInputs ==
    { <<>>, <<" ">>, <<"a">>, <<"A">>, <<" ", "a">>, <<"A", " ">>, <<"b">> }

\* texts a client may send as msg.message
Messages == {"", "hi"}

\* values that stand for the random suffix of a generated message id
MsgIds == {1}

\* the suffixes Math.random yields where ids are compared
Rands == {1, 2}

\* the last reading of the clock
MaxTime == 2

\* ------------------------------------------------------------- map helpers
MapSet(m, k, v) == [x \in DOMAIN m \cup {k} |-> IF x = k THEN v ELSE m[x]]

MapDelete(m, k) == [x \in DOMAIN m \ {k} |-> m[x]]

EmptyMap == [x \in {} |-> 0]

\* --------------------------------------------------------- string helpers
IsSpace(ch) == ch = " "

RECURSIVE TrimLeft(_)
TrimLeft(s) ==
    IF s # <<>> /\ IsSpace(Head(s)) THEN TrimLeft(Tail(s)) ELSE s

RECURSIVE TrimRight(_)
TrimRight(s) ==
    IF s # <<>> /\ IsSpace(s[Len(s)])
    THEN TrimRight(SubSeq(s, 1, Len(s) - 1))
    ELSE s

Trim_left(s) == TrimLeft(s)

\* String.prototype.trim
Trim(s) == TrimRight(TrimLeft(s))

LowerChar(ch) ==
    CASE ch = "A" -> "a"
      [] ch = "B" -> "b"
      [] ch = "C" -> "c"
      [] OTHER -> ch

\* String.prototype.toLowerCase
ToLowerCase(s) == [i \in 1..Len(s) |-> LowerChar(s[i])]

\* ------------------------------------------------------------------- state
VARIABLES
    chatRooms,       \* Map roomId -> room
    connectedUsers,  \* Map socketId -> {username, room, isOwner}
    adapter,         \* socket.io rooms of every socket (socket.join/leave)
    sockets,         \* io.sockets.sockets: the live sockets
    nextRoomId,      \* number of the next id generateRoomId returns
    out,             \* emissions of the handler that ran last, in order
    last,            \* the inbound event that was processed last
    chatStore,       \* currentRoom of the chat store of every Vue client
    now              \* Date.now(), in milliseconds

vars ==
    <<chatRooms, connectedUsers, adapter, sockets, nextRoomId, out, last,
      chatStore, now>>

\* the server state the handlers work on
Server ==
    [chatRooms |-> chatRooms, connectedUsers |-> connectedUsers,
     adapter |-> adapter, sockets |-> sockets, out |-> <<>>]

\* one emission: event name, the sockets it is delivered to, the payload
Emission(to, ev, data) == [to |-> to, ev |-> ev, data |-> data]

\* io.to(room): the live sockets the adapter lists for the room
IoTo(S, room) == {s \in S.sockets : room \in S.adapter[s]}

\* socket.to(room): the same without the emitting socket
SocketTo(S, c, room) == IoTo(S, room) \ {c}

Emit(S, to, ev, data) ==
    [S EXCEPT !.out = Append(@, Emission(to, ev, data))]

\* ----------------------------------------------------------------- helpers
NoOwner == [socketId |-> "null", nickname |-> "null", isOwner |-> FALSE]

IndexOf(users, socketId) ==
    IF \E i \in 1..Len(users) : users[i].socketId = socketId
    THEN CHOOSE i \in 1..Len(users) :
            /\ users[i].socketId = socketId
            /\ \A j \in 1..(i - 1) : users[j].socketId # socketId
    ELSE 0

RemoveAt(s, i) == [j \in 1..(Len(s) - 1) |-> IF j < i THEN s[j] ELSE s[j + 1]]

removeUserFromRoom_noop(rooms, roomId, socketId) == rooms

\* removeUserFromRoom: the room store after the call
removeUserFromRoom(rooms, roomId, socketId) ==
    IF roomId \notin DOMAIN rooms THEN rooms
    ELSE LET userIndex == IndexOf(rooms[roomId].users, socketId)
         IN  IF userIndex = 0 THEN rooms
             ELSE [rooms EXCEPT ![roomId].users = RemoveAt(@, userIndex)]

transferOwnership_last(rooms, roomId) ==
    IF roomId \notin DOMAIN rooms \/ Len(rooms[roomId].users) = 0
    THEN [rooms |-> MapDelete(rooms, roomId), newOwner |-> NoOwner]
    ELSE LET newOwner == rooms[roomId].users[Len(rooms[roomId].users)]
         IN  [rooms |-> [rooms EXCEPT ![roomId].owner = newOwner.socketId,
                                      ![roomId].ownerName = newOwner.nickname],
              newOwner |-> newOwner]

\* transferOwnership: the room store after the call and the returned user
transferOwnership(rooms, roomId) ==
    IF roomId \notin DOMAIN rooms \/ Len(rooms[roomId].users) = 0
    THEN [rooms |-> MapDelete(rooms, roomId), newOwner |-> NoOwner]
    ELSE LET newOwner == rooms[roomId].users[1]
         IN  [rooms |-> [rooms EXCEPT ![roomId].owner = newOwner.socketId,
                                      ![roomId].ownerName = newOwner.nickname],
              newOwner |-> newOwner]

\* the room summaries of broadcastRoomsList and sendRoomsListToClient, in
\* the insertion order of the Map (room ids are handed out in that order)
RECURSIVE RoomsListFrom(_, _)
RoomsListFrom(rooms, id) ==
    IF id > MaxRooms THEN <<>>
    ELSE IF id \in DOMAIN rooms
         THEN <<[id |-> id, name |-> rooms[id].name,
                 owner |-> rooms[id].ownerName,
                 userCount |-> Len(rooms[id].users),
                 users |-> [i \in 1..Len(rooms[id].users) |->
                               rooms[id].users[i].nickname]]>>
              \o RoomsListFrom(rooms, id + 1)
         ELSE RoomsListFrom(rooms, id + 1)

RoomsList(rooms) == RoomsListFrom(rooms, 1)

broadcastRoomsList_inRooms(S) ==
    Emit(S, S.sockets \cap DOMAIN S.connectedUsers, "rooms list",
         [rooms |-> RoomsList(S.chatRooms)])

broadcastRoomsList(S) ==
    Emit(S, S.sockets, "rooms list", [rooms |-> RoomsList(S.chatRooms)])

sendRoomsListToClient_all(S, c) == broadcastRoomsList(S)

sendRoomsListToClient(S, c) ==
    Emit(S, {c}, "rooms list", [rooms |-> RoomsList(S.chatRooms)])

\* ---------------------------------------------------------------- handlers
HasSession(S, c) == c \in DOMAIN S.connectedUsers

NameInvalid_notrim(hasName, roomName) == ~hasName \/ Len(roomName) = 0

\* create room, line 195: !data.roomName || data.roomName.trim().length === 0
NameInvalid(hasName, roomName) == ~hasName \/ Len(Trim(roomName)) = 0

NameExists_exact(rooms, roomName) ==
    \E id \in DOMAIN rooms : rooms[id].name = Trim(roomName)

\* create room, lines 204-205: some room has the name, compared in lower case
NameExists(rooms, roomName) ==
    \E id \in DOMAIN rooms :
        ToLowerCase(rooms[id].name) = ToLowerCase(Trim(roomName))

NewRoom_ownerless(c, user, roomName, roomId) ==
    [id |-> roomId, name |-> Trim(roomName), owner |-> "null",
     ownerName |-> user,
     users |-> <<[socketId |-> c, nickname |-> user, isOwner |-> FALSE]>>]

\* create room, lines 216-233: the new room
NewRoom(c, user, roomName, roomId) ==
    [id |-> roomId, name |-> Trim(roomName), owner |-> c,
     ownerName |-> user,
     users |-> <<[socketId |-> c, nickname |-> user, isOwner |-> TRUE]>>]

\* socket.on('create room')
CreateRoomHandler(S, c, user, hasName, roomName, roomId) ==
    IF NameInvalid(hasName, roomName)
    THEN Emit(S, {c}, "room creation failed", [code |-> "INVALID_ROOM_NAME"])
    ELSE IF NameExists(S.chatRooms, roomName)
    THEN Emit(S, {c}, "room creation failed", [code |-> "ROOM_NAME_EXISTS"])
    ELSE
      LET newRoom == NewRoom(c, user, roomName, roomId)
          S1 == [S EXCEPT
                   !.chatRooms = MapSet(@, roomId, newRoom),
                   !.connectedUsers =
                       MapSet(@, c, [username |-> user, room |-> roomId,
                                     isOwner |-> TRUE]),
                   !.adapter[c] = @ \cup {roomId}]
          S2 == Emit(S1, {c}, "room created",
                     [id |-> roomId, name |-> newRoom.name, owner |-> user,
                      isOwner |-> TRUE, userCount |-> 1])
      IN  broadcastRoomsList(S2)

\* join, lines 298-304: the caller is taken out of the room its session names
JoinLeaveOld(S, c, room) ==
    IF HasSession(S, c) /\ S.connectedUsers[c].room # room
    THEN [S EXCEPT
            !.adapter[c] = @ \ {S.connectedUsers[c].room},
            !.chatRooms = removeUserFromRoom(@, S.connectedUsers[c].room, c)]
    ELSE S

JoinAddUser_dup(rooms, c, user, room) ==
    [rooms EXCEPT ![room].users =
        Append(@, [socketId |-> c, nickname |-> user,
                   isOwner |-> (rooms[room].owner = c)])]

JoinAddUser_move(rooms, c, user, room) ==
    [rooms EXCEPT ![room].users =
        Append(SelectSeq(@, LAMBDA u : u.socketId # c),
               [socketId |-> c, nickname |-> user,
                isOwner |-> (rooms[room].owner = c)])]

JoinAddUser_front(rooms, c, user, room) ==
    IF IndexOf(rooms[room].users, c) = 0
    THEN [rooms EXCEPT ![room].users =
             <<[socketId |-> c, nickname |-> user,
                isOwner |-> (rooms[room].owner = c)]>> \o @]
    ELSE rooms

\* join, lines 313-322: the caller is appended unless it is listed already
JoinAddUser(rooms, c, user, room) ==
    IF IndexOf(rooms[room].users, c) = 0
    THEN [rooms EXCEPT ![room].users =
             Append(@, [socketId |-> c, nickname |-> user,
                        isOwner |-> (rooms[room].owner = c)])]
    ELSE rooms

JoinFailed_leaves(S, c) ==
    Emit([S EXCEPT !.connectedUsers = MapDelete(@, c)],
         {c}, "join failed", [code |-> "ROOM_NOT_FOUND"])

\* join, lines 290-296: the room is not in the store
JoinFailed(S, c) == Emit(S, {c}, "join failed", [code |-> "ROOM_NOT_FOUND"])

\* socket.on('join')
JoinHandler(S, c, user, room) ==
    IF room \notin DOMAIN S.chatRooms
    THEN JoinFailed(S, c)
    ELSE
      LET S1 == JoinLeaveOld(S, c, room)
          S2 == [S1 EXCEPT
                   !.connectedUsers =
                       MapSet(@, c, [username |-> user, room |-> room,
                                     isOwner |-> (S1.chatRooms[room].owner = c)]),
                   !.chatRooms = JoinAddUser(@, c, user, room),
                   !.adapter[c] = @ \cup {room}]
          r  == S2.chatRooms[room]
          S3 == Emit(S2, SocketTo(S2, c, room), "user joined", [user |-> user])
          S4 == Emit(S3, {c}, "join confirmed",
                     [id |-> room, name |-> r.name, owner |-> r.ownerName,
                      isOwner |-> (r.owner = c), userCount |-> Len(r.users),
                      users |-> [i \in 1..Len(r.users) |->
                                    [nickname |-> r.users[i].nickname,
                                     isOwner |-> r.users[i].isOwner]],
                      user |-> user])
      IN  broadcastRoomsList(S4)

\* leave and disconnect, lines 539-543 and 664-668: the session of the new
\* owner, if it has one, is flagged as owner
MarkOwner_skip(S, socketId) == S

MarkOwner(S, socketId) ==
    IF HasSession(S, socketId)
    THEN [S EXCEPT !.connectedUsers[socketId].isOwner = TRUE]
    ELSE S

\* leave and disconnect, lines 556 and 681: chatRooms.delete
DeleteRoom_keep(rooms, room) == rooms

DeleteRoom(rooms, room) == MapDelete(rooms, room)

OwnerDeparted_announceFirst(S, room) ==
    IF Len(S.chatRooms[room].users) > 0
    THEN LET t  == transferOwnership(S.chatRooms, room)
             n  == t.newOwner
             S1 == [S EXCEPT !.chatRooms = t.rooms]
             S2 == Emit(S1, IoTo(S1, room), "owner changed",
                        [newOwner |-> n.nickname])
             S3 == IF n.socketId \in S2.sockets
                   THEN LET S31 == Emit(S2, {n.socketId},
                                        "ownership transferred",
                                        [id |-> room,
                                         name |-> S.chatRooms[room].name])
                        IN  MarkOwner(S31, n.socketId)
                   ELSE S2
         IN  [state |-> S3, newOwner |-> n, roomDeleted |-> FALSE]
    ELSE [state |-> [S EXCEPT !.chatRooms = DeleteRoom(@, room)],
          newOwner |-> NoOwner, roomDeleted |-> TRUE]

OwnerDeparted_abort(S, room) ==
    IF Len(S.chatRooms[room].users) > 0
    THEN LET t  == transferOwnership(S.chatRooms, room)
             n  == t.newOwner
             S1 == [S EXCEPT !.chatRooms = t.rooms]
             S2 == IF n.socketId \in S1.sockets
                   THEN LET S21 == Emit(S1, {n.socketId},
                                        "ownership transferred",
                                        [id |-> room,
                                         name |-> S.chatRooms[room].name])
                            S22 == MarkOwner(S21, n.socketId)
                        IN  Emit(S22, IoTo(S22, room), "owner changed",
                                 [newOwner |-> n.nickname])
                   ELSE S1
         IN  [state |-> S2, newOwner |-> n, roomDeleted |-> FALSE]
    ELSE [state |-> [S EXCEPT !.chatRooms = DeleteRoom(@, room)],
          newOwner |-> NoOwner, roomDeleted |-> TRUE]

\* leave and disconnect, the branch taken when the departing socket was the
\* owner (lines 517-560 and 642-684): the state after it, and the new owner
OwnerDeparted(S, room) ==
    IF Len(S.chatRooms[room].users) > 0
    THEN LET t  == transferOwnership(S.chatRooms, room)
             n  == t.newOwner
             S1 == [S EXCEPT !.chatRooms = t.rooms]
             S2 == IF n.socketId \in S1.sockets
                   THEN LET S21 == Emit(S1, {n.socketId},
                                        "ownership transferred",
                                        [id |-> room,
                                         name |-> S.chatRooms[room].name])
                        IN  MarkOwner(S21, n.socketId)
                   ELSE S1
             S3 == Emit(S2, IoTo(S2, room), "owner changed",
                        [newOwner |-> n.nickname])
         IN  [state |-> S3, newOwner |-> n, roomDeleted |-> FALSE]
    ELSE [state |-> [S EXCEPT !.chatRooms = DeleteRoom(@, room)],
          newOwner |-> NoOwner, roomDeleted |-> TRUE]

UserLeftTargets_everyone(S, c, room) == S.sockets

\* leave, line 503, and disconnect, line 630: socket.to(room)
UserLeftTargets(S, c, room) == SocketTo(S, c, room)

LeaveFailed_silent(S, c) == [S EXCEPT !.connectedUsers = MapDelete(@, c)]

\* leave, lines 477-483: the room is not in the store
LeaveFailed(S, c) == Emit(S, {c}, "leave failed", [code |-> "ROOM_NOT_FOUND"])

LeaveConfirmed_noOwner(room, name, user, d) ==
    [id |-> room, name |-> name, user |-> user,
     roomDeleted |-> d.roomDeleted, newOwner |-> "null"]

\* leave, lines 563-574: the payload of 'leave confirmed'
LeaveConfirmed(room, name, user, d) ==
    [id |-> room, name |-> name, user |-> user,
     roomDeleted |-> d.roomDeleted, newOwner |-> d.newOwner.nickname]

\* socket.on('leave')
LeaveHandler(S, c, user, room) ==
    IF room \notin DOMAIN S.chatRooms
    THEN LeaveFailed(S, c)
    ELSE
      LET wasOwner == S.chatRooms[room].owner = c
          S1 == [S EXCEPT !.adapter[c] = @ \ {room},
                          !.chatRooms = removeUserFromRoom(@, room, c)]
          S2 == Emit(S1, UserLeftTargets(S1, c, room), "user left",
                     [user |-> user, wasOwner |-> wasOwner])
          d  == IF wasOwner THEN OwnerDeparted(S2, room)
                ELSE [state |-> S2, newOwner |-> NoOwner,
                      roomDeleted |-> FALSE]
          S3 == Emit(d.state, {c}, "leave confirmed",
                     LeaveConfirmed(room, S.chatRooms[room].name, user, d))
          S4 == [S3 EXCEPT !.connectedUsers = MapDelete(@, c)]
      IN  broadcastRoomsList(S4)

\* socket.on('get rooms')
GetRoomsHandler(S, c) == sendRoomsListToClient(S, c)

\* socket.io closes the socket before it fires 'disconnect': the socket has
\* left every adapter room and is no longer in io.sockets.sockets
SocketClosed(S, c) ==
    [S EXCEPT !.adapter[c] = {}, !.sockets = @ \ {c}]

\* socket.on('disconnect')
DisconnectHandler(S0, c) ==
    LET S == SocketClosed(S0, c)
    IN  IF ~HasSession(S, c) THEN S
        ELSE
          LET u    == S.connectedUsers[c]
              S5 == IF u.room \in DOMAIN S.chatRooms
                    THEN
                      LET wasOwner == u.isOwner
                          S1 == [S EXCEPT !.chatRooms =
                                    removeUserFromRoom(@, u.room, c)]
                          S2 == Emit(S1, UserLeftTargets(S1, c, u.room),
                                     "user left",
                                     [user |-> u.username,
                                      wasOwner |-> wasOwner])
                          S3 == IF wasOwner
                                THEN OwnerDeparted(S2, u.room).state
                                ELSE S2
                      IN  broadcastRoomsList(S3)
                    ELSE S
          IN  [S5 EXCEPT !.connectedUsers = MapDelete(@, c)]

ChatTargets_others(S, c, room) == SocketTo(S, c, room)

\* chat message, line 458: io.to(msg.room)
ChatTargets(S, c, room) == IoTo(S, room)

\* chat message, line 436: msg_${Date.now()}_${Math.random()...}; the id is
\* the clock reading followed by the random suffix
MessageId(t, rand) == [time |-> t, rand |-> rand]

\* ids are strings that begin with the clock reading: a < b compares the
\* readings first and the suffixes when the readings are equal
IdLess(a, b) == a.time < b.time \/ (a.time = b.time /\ a.rand < b.rand)

\* socket.on('chat message'); id stands for the generated message id
ChatMessageHandler(S, c, user, message, hasRoom, room, id) ==
    IF user = "" \/ message = "" \/ ~hasRoom
    THEN Emit(S, {c}, "error", [message |-> "invalid"])
    ELSE IF room \notin DOMAIN S.chatRooms
    THEN Emit(S, {c}, "error", [message |-> "no room"])
    ELSE IF IndexOf(S.chatRooms[room].users, c) = 0
    THEN Emit(S, {c}, "error", [message |-> "not in room"])
    ELSE Emit(S, ChatTargets(S, c, room), "chat message",
              [user |-> user, message |-> message, room |-> room, id |-> id,
               socketId |-> c, isOwner |-> (S.chatRooms[room].owner = c)])

\* the events of the names evs delivered to socket x, in emission order
DeliveredTo(o, x, evs) ==
    LET Mine(e) == x \in e.to /\ e.ev \in evs
        mine == SelectSeq(o, Mine)
    IN  [i \in 1..Len(mine) |-> [ev |-> mine[i].ev, data |-> mine[i].data]]

DepartureEvents == {"user left", "ownership transferred", "owner changed"}

AllEvents ==
    DepartureEvents \cup
    {"user joined", "join confirmed", "join failed", "leave confirmed",
     "leave failed", "room created", "room creation failed", "rooms list",
     "chat message", "error"}

\* ------------------------------------------------------------- Vue client
\* the nickname the client of socket c logged in with (userStore.nickname)
Nickname(c) == CHOOSE n \in NicksOf(c) : TRUE

\* chatStore.currentRoom === null
NoRoom == [id |-> 0, owner |-> "null", isOwner |-> FALSE, userCount |-> 0]

\* chat store, setCurrentRoom
setCurrentRoom(roomInfo) ==
    [id |-> roomInfo.id, owner |-> roomInfo.owner,
     isOwner |-> roomInfo.isOwner, userCount |-> roomInfo.userCount]

\* chat store, updateRoomOwner
updateRoomOwner(currentRoom, newOwner, isMe) ==
    IF currentRoom = NoRoom THEN currentRoom
    ELSE [currentRoom EXCEPT !.owner = newOwner, !.isOwner = isMe]

\* the socket.on handlers of the lobby and chat views: currentRoom after the
\* client of socket c has handled event e
ClientHandle(currentRoom, c, e) ==
    CASE e.ev \in {"room created", "join confirmed"} ->
            setCurrentRoom(e.data)
      [] e.ev = "user joined" ->
            IF currentRoom # NoRoom
            THEN [currentRoom EXCEPT !.userCount = @ + 1]
            ELSE currentRoom
      [] e.ev = "user left" ->
            IF currentRoom # NoRoom /\ currentRoom.userCount > 0
            THEN [currentRoom EXCEPT !.userCount = @ - 1]
            ELSE currentRoom
      [] e.ev = "leave confirmed" -> NoRoom
      [] e.ev = "ownership transferred" ->
            updateRoomOwner(currentRoom, Nickname(c), TRUE)
      [] e.ev = "owner changed" ->
            updateRoomOwner(currentRoom, e.data.newOwner, FALSE)
      [] OTHER -> currentRoom

\* currentRoom after the client has handled the events es in order
RECURSIVE ClientProcess(_, _, _)
ClientProcess(currentRoom, c, es) ==
    IF es = <<>> THEN currentRoom
    ELSE ClientProcess(ClientHandle(currentRoom, c, Head(es)), c, Tail(es))

\* ----------------------------------------------------------------- actions
\* the server right after the clients have connected: io.on('connection')
\* registers the socket and its handlers and touches neither server map
Init ==
    /\ chatRooms = EmptyMap
    /\ connectedUsers = EmptyMap
    /\ adapter = [c \in Conns |-> {}]
    /\ sockets = Conns
    /\ nextRoomId = 1
    /\ out = <<>>
    /\ last = [op |-> "init"]
    /\ chatStore = EmptyMap
    /\ now = 1

\* the same server with the Vue client behind every socket, each in the
\* lobby with no current room
InitVue ==
    /\ chatRooms = EmptyMap
    /\ connectedUsers = EmptyMap
    /\ adapter = [c \in Conns |-> {}]
    /\ sockets = Conns
    /\ nextRoomId = 1
    /\ out = <<>>
    /\ last = [op |-> "init"]
    /\ chatStore = [c \in Conns |-> NoRoom]
    /\ now = 1

\* the handler's result becomes the server state, and every Vue client
\* handles the events emitted to it, in the order of emission; the clock
\* does not move while a handler runs
Commit(S) ==
    /\ UNCHANGED now
    /\ chatRooms' = S.chatRooms
    /\ connectedUsers' = S.connectedUsers
    /\ adapter' = S.adapter
    /\ sockets' = S.sockets
    /\ out' = S.out
    /\ chatStore' = [c \in DOMAIN chatStore |->
                        ClientProcess(chatStore[c], c,
                                      DeliveredTo(S.out, c, AllEvents))]

CreateRoom(c, user, hasName, roomName) ==
    /\ c \in sockets
    /\ nextRoomId <= MaxRooms
    /\ LET S == CreateRoomHandler(Server, c, user, hasName, roomName, nextRoomId)
       IN  /\ Commit(S)
           /\ nextRoomId' = IF nextRoomId \in DOMAIN S.chatRooms
                            THEN nextRoomId + 1 ELSE nextRoomId
    /\ last' = [op |-> "create room", c |-> c, hasName |-> hasName,
                roomName |-> roomName]

Join(c, user, room) ==
    /\ c \in sockets
    /\ Commit(JoinHandler(Server, c, user, room))
    /\ last' = [op |-> "join", c |-> c, room |-> room]
    /\ UNCHANGED nextRoomId

Leave(c, user, room) ==
    /\ c \in sockets
    /\ Commit(LeaveHandler(Server, c, user, room))
    /\ last' = [op |-> "leave", c |-> c, room |-> room]
    /\ UNCHANGED nextRoomId

GetRooms(c) ==
    /\ c \in sockets
    /\ Commit(GetRoomsHandler(Server, c))
    /\ last' = [op |-> "get rooms", c |-> c]
    /\ UNCHANGED nextRoomId

Disconnect(c) ==
    /\ c \in sockets
    /\ Commit(DisconnectHandler(Server, c))
    /\ last' = [op |-> "disconnect", c |-> c]
    /\ UNCHANGED nextRoomId

ChatMessage(c, user, message, hasRoom, room, id) ==
    /\ c \in sockets
    /\ Commit(ChatMessageHandler(Server, c, user, message, hasRoom, room,
                                  MessageId(now, id)))
    /\ last' = [op |-> "chat message", c |-> c, user |-> user,
                message |-> message, hasRoom |-> hasRoom, room |-> room]
    /\ UNCHANGED nextRoomId

Next ==
    \/ \E c \in Conns : \E user \in NicksOf(c), roomName \in RoomNames :
          CreateRoom(c, user, TRUE, roomName)
    \/ \E c \in Conns : \E user \in NicksOf(c), room \in RoomIds :
          Join(c, user, room)
    \/ \E c \in Conns : \E user \in NicksOf(c), room \in RoomIds :
          Leave(c, user, room)
    \/ \E c \in Conns : Disconnect(c)

Spec == Init /\ [][Next]_vars

\* join and leave events on the first room only: the behaviours of one
\* freshly created room that sees nothing but join and leave
NextJoinLeave ==
    \/ \E c \in Conns : \E user \in NicksOf(c), roomName \in RoomNames :
          nextRoomId = 1 /\ CreateRoom(c, user, TRUE, roomName)
    \/ \E c \in Conns : \E user \in NicksOf(c) : Join(c, user, 1)
    \/ \E c \in Conns : \E user \in NicksOf(c) : Leave(c, user, 1)

SpecJoinLeave == Init /\ [][NextJoinLeave]_vars

\* one room with three sockets that join, leave, disconnect and send chat
\* messages, well formed or not
NextChat ==
    \/ \E c \in Conns : \E user \in NicksOf(c), roomName \in RoomNames :
          nextRoomId = 1 /\ CreateRoom(c, user, TRUE, roomName)
    \/ \E c \in Conns : \E user \in NicksOf(c) : Join(c, user, 1)
    \/ \E c \in Conns : \E user \in NicksOf(c) : Leave(c, user, 1)
    \/ \E c \in Conns : Disconnect(c)
    \/ \E c \in Conns : \E user \in NicksOf(c) \cup {""}, message \in Messages,
                             hasRoom \in BOOLEAN, room \in RoomIds, id \in MsgIds :
          ChatMessage(c, user, message, hasRoom, room, id)

SpecChat == Init /\ [][NextChat]_vars

\* two sockets and two rooms: every membership event and chat messages
Pair == {"A", "B"}

NextChatRooms ==
    \/ \E c \in Pair : \E user \in NicksOf(c), roomName \in RoomNames :
          CreateRoom(c, user, TRUE, roomName)
    \/ \E c \in Pair : \E user \in NicksOf(c), room \in RoomIds :
          Join(c, user, room)
    \/ \E c \in Pair : \E user \in NicksOf(c), room \in RoomIds :
          Leave(c, user, room)
    \/ \E c \in Pair : Disconnect(c)
    \/ \E c \in Pair : \E user \in NicksOf(c) \cup {""}, message \in Messages,
                            hasRoom \in BOOLEAN, room \in RoomIds, id \in MsgIds :
          ChatMessage(c, user, message, hasRoom, room, id)

SpecChatRooms == Init /\ [][NextChatRooms]_vars

\* a millisecond passes between two handlers
Tick ==
    /\ now < MaxTime
    /\ now' = now + 1
    /\ UNCHANGED <<chatRooms, connectedUsers, adapter, sockets, nextRoomId,
                   out, last, chatStore>>

\* two sockets in one room that send chat messages while the clock runs
NextIds ==
    \/ \E c \in Pair : \E user \in NicksOf(c), roomName \in RoomNames :
          nextRoomId = 1 /\ CreateRoom(c, user, TRUE, roomName)
    \/ \E c \in Pair : \E user \in NicksOf(c) : Join(c, user, 1)
    \/ \E c \in Pair : \E user \in NicksOf(c) : Leave(c, user, 1)
    \/ \E c \in Pair : \E user \in NicksOf(c), message \in Messages,
                            rand \in Rands :
          ChatMessage(c, user, message, TRUE, 1, rand)
    \/ Tick

SpecIds == Init /\ [][NextIds]_vars

\* two sockets that create rooms under names of every shape, join and leave
NextNames ==
    \/ \E c \in Pair : \E user \in NicksOf(c), roomName \in NameInputs :
          CreateRoom(c, user, TRUE, roomName)
    \/ \E c \in Pair : \E user \in NicksOf(c) :
          CreateRoom(c, user, FALSE, <<>>)
    \/ \E c \in Pair : \E user \in NicksOf(c), room \in RoomIds :
          Join(c, user, room)
    \/ \E c \in Pair : \E user \in NicksOf(c), room \in RoomIds :
          Leave(c, user, room)

SpecNames == Init /\ [][NextNames]_vars

\* two sockets that create, join, leave and disconnect, and any socket asks
\* for the list of rooms
NextRooms ==
    \/ \E c \in Pair : \E user \in NicksOf(c), roomName \in RoomNames :
          CreateRoom(c, user, TRUE, roomName)
    \/ \E c \in Pair : \E user \in NicksOf(c), room \in RoomIds :
          Join(c, user, room)
    \/ \E c \in Pair : \E user \in NicksOf(c), room \in RoomIds :
          Leave(c, user, room)
    \/ \E c \in Pair : Disconnect(c)
    \/ \E c \in Conns : GetRooms(c)

SpecRooms == Init /\ [][NextRooms]_vars

\* the largest member count a Vue client may show before it is sent more
MaxCount == 3

CountsBounded == \A c \in DOMAIN chatStore : chatStore[c].userCount < MaxCount

\* one room and the Vue client behind every socket: the clients create the
\* room, join it, leave it and disconnect
NextVue ==
    \/ \E c \in Conns : \E user \in NicksOf(c), roomName \in RoomNames :
          nextRoomId = 1 /\ CreateRoom(c, user, TRUE, roomName)
    \/ \E c \in Conns : \E user \in NicksOf(c) :
          CountsBounded /\ Join(c, user, 1)
    \/ \E c \in Conns : \E user \in NicksOf(c) : Leave(c, user, 1)
    \/ \E c \in Conns : Disconnect(c)

SpecVue == InitVue /\ [][NextVue]_vars

\* ------------------------------------------------------ views of the state
\* the socket ids of a member list, in order
MemberIds(users) == [i \in 1..Len(users) |-> users[i].socketId]

Members(rooms, r) == {rooms[r].users[i].socketId : i \in 1..Len(rooms[r].users)}

\* a member list without the entries of socket c
Without(users, c) ==
    LET Keep(u) == u.socketId # c IN SelectSeq(users, Keep)

\* what a claim observes of one room: existence, members in order, owner
RoomView(rooms, r) ==
    IF r \in DOMAIN rooms
    THEN [exists |-> TRUE, members |-> MemberIds(rooms[r].users),
          owner |-> rooms[r].owner]
    ELSE [exists |-> FALSE, members |-> <<>>, owner |-> "null"]

Emitted(ev) == \E i \in 1..Len(out) : out[i].ev = ev

\* the room the session of socket c names, 0 without a session
SessionRoom(c) ==
    IF c \in DOMAIN connectedUsers THEN connectedUsers[c].room ELSE 0

\* the step processes leave(r) by its caller, or the disconnect of a socket
\* whose session names r
Departs(c, r) ==
    /\ last'.c = c
    /\ \/ last'.op = "leave" /\ last'.room = r
       \/ last'.op = "disconnect" /\ SessionRoom(c) = r

\* ------------------------------------------------------------------ claims
\* C1: after every event every room of the store has at least one member.
C1_NoEmptyRoom ==
    \A r \in DOMAIN chatRooms : Len(chatRooms[r].users) >= 1

\* C2: the owner of a room that has members is one of its members.
C2_OwnerIsMember ==
    \A r \in DOMAIN chatRooms :
        Len(chatRooms[r].users) >= 1 => chatRooms[r].owner \in Members(chatRooms, r)

C4_JoinLeavesOldRoom ==
    [][\A c \in Conns : \A r1 \in DOMAIN chatRooms :
          ( /\ last'.op = "join" /\ last'.c = c
            /\ last'.room \in DOMAIN chatRooms
            /\ last'.room # r1
            /\ SessionRoom(c) = r1
            /\ c \in Members(chatRooms, r1) ) =>
             LET L == LeaveHandler(Server, c, connectedUsers[c].username, r1)
             IN  /\ RoomView(chatRooms', r1) = RoomView(L.chatRooms, r1)
                 /\ \A x \in Conns \ {c} :
                       DeliveredTo(out', x, DepartureEvents) =
                       DeliveredTo(L.out, x, DepartureEvents)]_vars

\* C5: the owner of a room that has members is its first member.
C5_OwnerIsFirstMember ==
    \A r \in DOMAIN chatRooms :
        Len(chatRooms[r].users) >= 1 =>
            chatRooms[r].owner = chatRooms[r].users[1].socketId

\* C6: the room a session names exists and lists the socket exactly once.
C6_SessionRoomListsSocketOnce ==
    \A c \in DOMAIN connectedUsers :
        /\ connectedUsers[c].room \in DOMAIN chatRooms
        /\ Cardinality({i \in 1..Len(chatRooms[connectedUsers[c].room].users) :
              chatRooms[connectedUsers[c].room].users[i].socketId = c}) = 1

\* a socket has joined the room its session already named, next to another
\* member
C6_Witness ==
    /\ last.op = "join"
    /\ Emitted("join confirmed")
    /\ SessionRoom(last.c) = last.room
    /\ last.room \in DOMAIN chatRooms
    /\ Len(chatRooms[last.room].users) = 2
    /\ chatRooms[last.room].users[1].socketId = last.c
    /\ \E i \in 1..Len(out) : out[i].ev = "user joined" /\ out[i].to # {}

\* C7: the disconnect of a socket x whose session names room r takes x out of
\* the members of r and destroys the session of x; if x owned r and other
\* members remain, the first of them owns r afterwards.
C7_DisconnectCleanup ==
    [][\A x \in Conns : \A r \in DOMAIN chatRooms :
          (last'.op = "disconnect" /\ last'.c = x /\ SessionRoom(x) = r) =>
             LET remaining == Without(chatRooms[r].users, x)
             IN  /\ x \notin DOMAIN connectedUsers'
                 /\ r \in DOMAIN chatRooms' => x \notin Members(chatRooms', r)
                 /\ (chatRooms[r].owner = x /\ Len(remaining) >= 1) =>
                       /\ r \in DOMAIN chatRooms'
                       /\ chatRooms'[r].users = remaining
                       /\ chatRooms'[r].owner = remaining[1].socketId]_vars

\* the owner of a room has disconnected and the next member has taken over
C7_Witness ==
    /\ last.op = "disconnect"
    /\ last.c \notin sockets
    /\ last.c \notin DOMAIN connectedUsers
    /\ \E r \in DOMAIN chatRooms :
          /\ Len(chatRooms[r].users) >= 1
          /\ last.c \notin Members(chatRooms, r)
          /\ \E i \in 1..Len(out) :
                /\ out[i].ev = "ownership transferred"
                /\ out[i].data.id = r
                /\ out[i].to = {chatRooms[r].owner}
          /\ \E i \in 1..Len(out) :
                out[i].ev = "user left" /\ out[i].data.wasOwner

\* C8: the disconnect of a socket x whose session names room r leaves r as
\* leave(r) by x would, and delivers to every other socket what that leave
\* would deliver to it.
C8_DisconnectAsLeave ==
    [][\A x \in Conns : \A r \in DOMAIN chatRooms :
          (last'.op = "disconnect" /\ last'.c = x /\ SessionRoom(x) = r) =>
             LET L == LeaveHandler(Server, x, connectedUsers[x].username, r)
             IN  /\ RoomView(chatRooms', r) = RoomView(L.chatRooms, r)
                 /\ \A y \in Conns \ {x} :
                       DeliveredTo(out', y, AllEvents) =
                       DeliveredTo(L.out, y, AllEvents)]_vars

\* room r has exactly the members x, y, z in this order, x owns it and the
\* sessions of x and y name it
DeparturePair(r, x, y, z) ==
    /\ r \in DOMAIN chatRooms
    /\ MemberIds(chatRooms[r].users) = <<x, y, z>>
    /\ Cardinality({x, y, z}) = 3
    /\ chatRooms[r].owner = x
    /\ SessionRoom(x) = r /\ SessionRoom(y) = r
    /\ {x, y} \subseteq sockets

\* the owner of room r in server state S is one of its members
OwnerAmongMembers(S, r) ==
    /\ r \in DOMAIN S.chatRooms
    /\ S.chatRooms[r].owner \in Members(S.chatRooms, r)

C10_AllLeftRoomGone ==
    (DOMAIN connectedUsers = {}) => (DOMAIN chatRooms = {})

\* the room was created and the last socket that was joined to it has left
C10_Witness ==
    /\ last.op = "leave"
    /\ DOMAIN connectedUsers = {}
    /\ nextRoomId = 2
    /\ DOMAIN chatRooms = {}
    /\ \E i \in 1..Len(out) :
          out[i].ev = "leave confirmed" /\ out[i].data.roomDeleted

\* the server maps are what they were before the step
StoreUnchanged == UNCHANGED <<chatRooms, connectedUsers, adapter, sockets>>

\* the step emitted one event and nothing else, to socket c alone
OnlyTo(c, ev) ==
    /\ Len(out') = 1
    /\ out'[1].ev = ev
    /\ out'[1].to = {c}

\* C11: a chat message the server accepts for room r goes to every live
\* member of r, the sender included.
C11_MessageFanOut ==
    [][(last'.op = "chat message" /\ out'[1].ev = "chat message") =>
          /\ last'.c \in Members(chatRooms, last'.room)
          /\ out'[1].data.message = last'.message
          /\ last'.c \in out'[1].to
          /\ (Members(chatRooms, last'.room) \cap sockets) \subseteq out'[1].to]_vars

\* B has sent a message to the room of A, B and C and all three got it
C11_Witness ==
    /\ last.op = "chat message" /\ last.c = "B"
    /\ last.room \in DOMAIN chatRooms
    /\ Members(chatRooms, last.room) = {"A", "B", "C"}
    /\ out[1].ev = "chat message"
    /\ out[1].to = {"A", "B", "C"}

\* C12: a chat message for room r is broadcast only when the session of the
\* sender names r and the text is not empty; otherwise the sender alone gets
\* an error and the server maps stay as they are.
C12_BroadcastOnlyFromSession ==
    [][last'.op = "chat message" =>
          \/ /\ last'.hasRoom
             /\ SessionRoom(last'.c) = last'.room
             /\ last'.message # ""
          \/ OnlyTo(last'.c, "error") /\ StoreUnchanged]_vars

\* a name as the uniqueness rule reads it: without the blanks around it and
\* in lower case
Canon(s) ==
    LET I == {i \in 1..Len(s) : s[i] # " "}
        lo == CHOOSE i \in I : \A j \in I : i <= j
        hi == CHOOSE i \in I : \A j \in I : j <= i
        Low(ch) == IF ch = "A" THEN "a"
                   ELSE IF ch = "B" THEN "b"
                   ELSE IF ch = "C" THEN "c" ELSE ch
    IN  IF I = {} THEN <<>>
        ELSE [k \in 1..(hi - lo + 1) |-> Low(s[lo + k - 1])]

\* the step processes a create room request that carries a usable name
CreatesNamed ==
    /\ last'.op = "create room"
    /\ last'.hasName
    /\ Canon(last'.roomName) # <<>>

\* some room of the store has the name of the request, case ignored
Collides ==
    \E id \in DOMAIN chatRooms :
        Canon(chatRooms[id].name) = Canon(last'.roomName)

\* the step answered its caller alone with 'room creation failed' and code
CreationFailed(code) ==
    /\ OnlyTo(last'.c, "room creation failed")
    /\ out'[1].data.code = code

\* C13: no two rooms of the store have names that are equal when case is
\* ignored.
C13_UniqueNames ==
    \A r1, r2 \in DOMAIN chatRooms :
        r1 # r2 => ToLowerCase(chatRooms[r1].name) # ToLowerCase(chatRooms[r2].name)

\* two rooms live side by side, one under an upper-case name
C13_Witness ==
    /\ Cardinality(DOMAIN chatRooms) = 2
    /\ \E r \in DOMAIN chatRooms : chatRooms[r].name = <<"A">>

\* C14: a create room whose trimmed name equals, case ignored, the name of
\* a room of the store is answered ROOM_NAME_EXISTS to the requester alone
\* and changes neither the store nor any session.
C14_NameCollisionRejected ==
    [][(CreatesNamed /\ Collides) =>
          /\ CreationFailed("ROOM_NAME_EXISTS")
          /\ StoreUnchanged
          /\ UNCHANGED nextRoomId]_vars

\* a request for a name that differs from a room's name in case or padding
\* only has been rejected
C14_Witness ==
    /\ last.op = "create room"
    /\ Len(out) = 1 /\ out[1].ev = "room creation failed"
    /\ out[1].data.code = "ROOM_NAME_EXISTS"
    /\ \A id \in DOMAIN chatRooms : chatRooms[id].name # last.roomName
    /\ chatRooms # EmptyMap

\* C15: a create room whose name is missing or blank is answered
\* INVALID_ROOM_NAME to the requester alone and changes neither the room
\* store nor the registry of connections.
C15_InvalidNameRejected ==
    [][(last'.op = "create room" /\ ~CreatesNamed) =>
          /\ CreationFailed("INVALID_ROOM_NAME")
          /\ StoreUnchanged
          /\ UNCHANGED nextRoomId]_vars

\* a name of blanks only has been rejected while a room exists
C15_Witness ==
    /\ last.op = "create room"
    /\ last.hasName /\ last.roomName = <<" ">>
    /\ Len(out) = 1 /\ out[1].data.code = "INVALID_ROOM_NAME"
    /\ chatRooms # EmptyMap

\* C16: a create room with a usable name that collides with no room adds
\* exactly one room, whose only member and owner is the caller, and the
\* session of the caller names that room.
C16_CreateAddsRoom ==
    [][(CreatesNamed /\ ~Collides) =>
          \E id \in (DOMAIN chatRooms') \ (DOMAIN chatRooms) :
             /\ DOMAIN chatRooms' = (DOMAIN chatRooms) \cup {id}
             /\ MemberIds(chatRooms'[id].users) = <<last'.c>>
             /\ chatRooms'[id].owner = last'.c
             /\ last'.c \in DOMAIN connectedUsers'
             /\ connectedUsers'[last'.c].room = id]_vars

\* a socket that was in a room has created a second one from a padded name
C16_Witness ==
    /\ last.op = "create room" /\ last.roomName = <<"A", " ">>
    /\ Emitted("room created")
    /\ Cardinality(DOMAIN chatRooms) = 2
    /\ SessionRoom(last.c) = 2
    /\ chatRooms[2].name = <<"A">>
    /\ MemberIds(chatRooms[2].users) = <<last.c>>

\* the step processes a join of a room that is in the store
JoinsExisting ==
    /\ last'.op = "join"
    /\ last'.room \in DOMAIN chatRooms
    /\ last'.room \in DOMAIN chatRooms'

\* C17: join(r) by a socket already listed in r leaves r's member list as it
\* was: the same entries in the same order, one of them for that socket.
C17_IdempotentJoin ==
    [][(JoinsExisting /\ last'.c \in Members(chatRooms, last'.room)) =>
          /\ chatRooms'[last'.room].users = chatRooms[last'.room].users
          /\ Len(Without(chatRooms'[last'.room].users, last'.c))
                = Len(chatRooms'[last'.room].users) - 1]_vars

\* the second of three members has joined again and is still the second
C17_Witness ==
    /\ last.op = "join"
    /\ Emitted("join confirmed")
    /\ last.room \in DOMAIN chatRooms
    /\ Len(chatRooms[last.room].users) = 3
    /\ chatRooms[last.room].users[2].socketId = last.c

\* C18: a join of an existing room leaves the owner of that room as it was,
\* and a joiner not yet listed is appended at the end of the member list.
C18_JoinKeepsOwner ==
    [][last'.op = "join" /\ last'.room \in DOMAIN chatRooms =>
          /\ last'.room \in DOMAIN chatRooms'
          /\ chatRooms'[last'.room].owner = chatRooms[last'.room].owner
          /\ (last'.c \notin Members(chatRooms, last'.room) =>
                MemberIds(chatRooms'[last'.room].users)
                   = Append(MemberIds(chatRooms[last'.room].users), last'.c))]_vars

\* a socket that does not own the room is the last of its three members
\* right after its join, and the owner is the first
C18_Witness ==
    /\ last.op = "join"
    /\ Emitted("join confirmed")
    /\ last.room \in DOMAIN chatRooms
    /\ Len(chatRooms[last.room].users) = 3
    /\ chatRooms[last.room].users[3].socketId = last.c
    /\ chatRooms[last.room].owner = chatRooms[last.room].users[1].socketId

\* C19: a join of a room that is not in the store is answered 'join failed'
\* to the caller alone; no room, member list, owner or session changes and
\* no other socket receives an event.
C19_JoinUnknownRoom ==
    [][(last'.op = "join" /\ last'.room \notin DOMAIN chatRooms) =>
          /\ OnlyTo(last'.c, "join failed")
          /\ StoreUnchanged]_vars

\* a socket whose session names a room has been refused a room that does
\* not exist
C19_Witness ==
    /\ last.op = "join"
    /\ last.room \notin DOMAIN chatRooms
    /\ Len(out) = 1 /\ out[1].ev = "join failed" /\ out[1].to = {last.c}
    /\ SessionRoom(last.c) \in DOMAIN chatRooms

\* the step processes a leave of a room that is not in the store
LeavesUnknown ==
    /\ last'.op = "leave"
    /\ last'.room \notin DOMAIN chatRooms

Departing == last'.op \in {"leave", "disconnect"}

\* the room the departure of the step is about: the one the leave names,
\* or the one the session of the disconnecting socket names
DepartedRoom ==
    IF last'.op = "leave" THEN last'.room ELSE SessionRoom(last'.c)

\* the sockets the step delivers event ev to
Receivers(ev) ==
    UNION {out'[i].to : i \in {j \in 1..Len(out') : out'[j].ev = ev}}

\* C21: the 'user left' of a leave or a disconnect is not delivered to the
\* socket that left or disconnected, only to other members of the room.
C21_UserLeftNotToLeaver ==
    [][(Departing /\ Receivers("user left") # {}) =>
          /\ last'.c \notin Receivers("user left")
          /\ DepartedRoom \in DOMAIN chatRooms
          /\ Receivers("user left")
                \subseteq Members(chatRooms, DepartedRoom) \ {last'.c}]_vars

\* a member has left a room and the two others were told
C21_Witness ==
    /\ last.op = "leave"
    /\ \E i \in 1..Len(out) :
          /\ out[i].ev = "user left"
          /\ Cardinality(out[i].to) = 2
          /\ last.c \notin out[i].to

\* the step is a leave or a disconnect after which room r has another owner
Transferred(r) ==
    /\ Departing
    /\ r \in DOMAIN chatRooms /\ r \in DOMAIN chatRooms'
    /\ chatRooms'[r].owner # chatRooms[r].owner

\* the number of emissions of event ev in the step
Count(ev) == Cardinality({i \in 1..Len(out') : out'[i].ev = ev})

\* C22: when the ownership of a room is transferred, 'ownership
\* transferred' is delivered to the new owner and to nobody else.
C22_TransferToldToNewOwner ==
    [][\A r \in RoomIds : Transferred(r) =>
          /\ Count("ownership transferred") = 1
          /\ Receivers("ownership transferred") = {chatRooms'[r].owner}]_vars

\* C23: when the ownership of a room is transferred, 'owner changed' with
\* the name of the new owner is delivered to every remaining member of the
\* room, the new owner included, and not to the former owner.
C23_OwnerChangedToMembers ==
    [][\A r \in RoomIds : Transferred(r) =>
          /\ Count("owner changed") = 1
          /\ \A i \in 1..Len(out') : out'[i].ev = "owner changed" =>
                out'[i].data.newOwner = chatRooms'[r].ownerName
          /\ Receivers("owner changed") = Members(chatRooms', r)
          /\ chatRooms'[r].owner \in Receivers("owner changed")
          /\ last'.c \notin Receivers("owner changed")]_vars

\* the step is a leave or a disconnect that takes the last member out of
\* room r
LastMemberDeparts(r) ==
    /\ Departing
    /\ r \in DOMAIN chatRooms
    /\ DepartedRoom = r
    /\ Members(chatRooms, r) = {last'.c}

\* C24: when a leave or a disconnect takes the last member out of a room,
\* the room is deleted from the store and neither 'ownership transferred'
\* nor 'owner changed' is sent.
C24_LastMemberDeletesRoom ==
    [][\A r \in RoomIds : LastMemberDeparts(r) =>
          /\ r \notin DOMAIN chatRooms'
          /\ Count("ownership transferred") = 0
          /\ Count("owner changed") = 0]_vars

\* the member list a 'join confirmed' payload carries is the list of room r
CarriesMembers(data, r) ==
    /\ data.userCount = Len(chatRooms'[r].users)
    /\ Len(data.users) = Len(chatRooms'[r].users)
    /\ \A k \in 1..Len(data.users) :
          data.users[k].nickname = chatRooms'[r].users[k].nickname

\* C25: a join of an existing room r delivers 'user joined' to every other
\* member of r and not to the joiner; the joiner alone gets 'join
\* confirmed', whose member list is that of r and includes the joiner.
C25_JoinNotifications ==
    [][(last'.op = "join" /\ last'.room \in DOMAIN chatRooms) =>
          /\ last'.room \in DOMAIN chatRooms'
          /\ Receivers("user joined")
                = Members(chatRooms', last'.room) \ {last'.c}
          /\ Count("join confirmed") = 1
          /\ Receivers("join confirmed") = {last'.c}
          /\ last'.c \in Members(chatRooms', last'.room)
          /\ \A i \in 1..Len(out') : out'[i].ev = "join confirmed" =>
                CarriesMembers(out'[i].data, last'.room)]_vars

\* list is the sequence of the summaries of the rooms in the store, one for
\* each room
SummariesOf(list, rooms) ==
    /\ Len(list) = Cardinality(DOMAIN rooms)
    /\ {list[k].id : k \in 1..Len(list)} = DOMAIN rooms
    /\ \A k \in 1..Len(list) :
          /\ list[k].id \in DOMAIN rooms
          /\ list[k].name = rooms[list[k].id].name
          /\ list[k].owner = rooms[list[k].id].ownerName
          /\ list[k].userCount = Len(rooms[list[k].id].users)

\* C26: 'get rooms' sends the summaries of the rooms now in the store to the
\* requesting socket alone and changes neither the store nor any session.
C26_GetRoomsToRequester ==
    [][last'.op = "get rooms" =>
          /\ OnlyTo(last'.c, "rooms list")
          /\ SummariesOf(out'[1].data.rooms, chatRooms)
          /\ StoreUnchanged]_vars

\* a socket that is in no room has been sent the summaries of two rooms
C26_Witness ==
    /\ last.op = "get rooms"
    /\ last.c \notin DOMAIN connectedUsers
    /\ Len(out) = 1 /\ out[1].ev = "rooms list" /\ out[1].to = {last.c}
    /\ Len(out[1].data.rooms) = 2

\* the step is a leave or a disconnect by a member of room r that does not
\* own it
NonOwnerDeparts(r) ==
    /\ Departing
    /\ r \in DOMAIN chatRooms
    /\ DepartedRoom = r
    /\ last'.c \in Members(chatRooms, r)
    /\ chatRooms[r].owner # last'.c

\* C27: a leave or a disconnect by a member that does not own the room
\* leaves the owner of the room as it was and sends neither 'ownership
\* transferred' nor 'owner changed'; the owner of a room changes only when
\* the departing socket owned it and members remain.
C27_NonOwnerDeparture ==
    [][\A r \in RoomIds :
          /\ NonOwnerDeparts(r) =>
                /\ r \in DOMAIN chatRooms' => chatRooms'[r].owner = chatRooms[r].owner
                /\ Count("ownership transferred") = 0
                /\ Count("owner changed") = 0
          /\ Transferred(r) =>
                /\ chatRooms[r].owner = last'.c
                /\ Len(chatRooms'[r].users) > 0]_vars

\* the step is a leave of an existing room r by a socket not listed in it
StrangerLeaves(r) ==
    /\ last'.op = "leave"
    /\ last'.room = r
    /\ r \in DOMAIN chatRooms
    /\ last'.c \notin Members(chatRooms, r)

\* C28: a leave of an existing room r by a socket that is not a member of r
\* sends no 'user left' to anyone, and the session of the caller for the
\* room it is in is not destroyed.
C28_StrangerLeaveHasNoEffect ==
    [][\A r \in RoomIds : StrangerLeaves(r) =>
          /\ Receivers("user left") = {}
          /\ (/\ SessionRoom(last'.c) \in DOMAIN chatRooms
              /\ last'.c \in Members(chatRooms, SessionRoom(last'.c))) =>
                /\ last'.c \in DOMAIN connectedUsers'
                /\ connectedUsers'[last'.c].room = SessionRoom(last'.c)]_vars

\* C29: no socket is listed as member of two rooms.
C29_MemberOfOneRoom ==
    \A r1, r2 \in DOMAIN chatRooms :
        r1 # r2 => Members(chatRooms, r1) \cap Members(chatRooms, r2) = {}

\* C30: every socket listed in a room is connected and has a session that
\* names the room; a socket that has disconnected is listed in no room and
\* owns no room.
C30_MembersAreLiveSessions ==
    /\ \A r \in DOMAIN chatRooms : \A c \in Members(chatRooms, r) :
          c \in sockets /\ SessionRoom(c) = r
    /\ \A r \in DOMAIN chatRooms : \A c \in Conns \ sockets :
          c \notin Members(chatRooms, r) /\ chatRooms[r].owner # c

\* the place of a departure event in the order the handlers emit them
Rank(ev) ==
    CASE ev = "user left" -> 1
      [] ev = "ownership transferred" -> 2
      [] ev = "owner changed" -> 3
      [] ev = "leave confirmed" -> 4
      [] OTHER -> 0

\* the events socket x is sent by the step that tell of the departure
DepartureSeq(x) ==
    DeliveredTo(out', x, DepartureEvents \cup {"leave confirmed"})

\* C31: the events of one departure reach every recipient in a fixed order:
\* 'user left' before 'owner changed', 'ownership transferred' before
\* 'owner changed', and 'leave confirmed' is emitted after all of them.
C31_DepartureOrder ==
    [][Departing =>
          /\ \A x \in Conns : \A i, j \in 1..Len(DepartureSeq(x)) :
                i < j => Rank(DepartureSeq(x)[i].ev) < Rank(DepartureSeq(x)[j].ev)
          /\ \A i, j \in 1..Len(out') :
                (out'[i].ev = "leave confirmed" /\ out'[j].ev \in DepartureEvents)
                   => j < i]_vars

\* the owner has left a room of three: the new owner got 'user left',
\* 'ownership transferred' and 'owner changed', the other member got 'user
\* left' and 'owner changed', and 'leave confirmed' came last
C31_Witness ==
    /\ last.op = "leave"
    /\ \E x, y \in Conns \ {last.c} :
          /\ x # y
          /\ Len(DeliveredTo(out, x, DepartureEvents)) = 3
          /\ Len(DeliveredTo(out, y, DepartureEvents)) = 2
    /\ \E i \in 1..Len(out) :
          /\ out[i].ev = "leave confirmed"
          /\ \A j \in 1..Len(out) : out[j].ev \in DepartureEvents => j < i

\* the step is a leave or a disconnect of the owner of room r that hands the
\* room to a member whose socket is closed
HandsToClosed(r) ==
    /\ Departing
    /\ r \in DOMAIN chatRooms
    /\ DepartedRoom = r
    /\ chatRooms[r].owner = last'.c
    /\ last'.op = "disconnect" => connectedUsers[last'.c].isOwner
    /\ Without(chatRooms[r].users, last'.c) # <<>>
    /\ Without(chatRooms[r].users, last'.c)[1].socketId \notin sockets

\* C32: when the member that becomes owner has no live socket, only its
\* 'ownership transferred' is skipped: the owner of the room is updated and
\* 'owner changed' is still sent to the remaining members.
C32_TransferToClosedSocket ==
    [][\A r \in RoomIds : HandsToClosed(r) =>
          /\ r \in DOMAIN chatRooms'
          /\ chatRooms'[r].owner = Without(chatRooms[r].users, last'.c)[1].socketId
          /\ Count("ownership transferred") = 0
          /\ Count("owner changed") = 1
          /\ Receivers("owner changed") = Members(chatRooms', r) \cap sockets']_vars

\* a room was handed to a closed socket and its live member was told
C32_Witness ==
    /\ last.op \in {"leave", "disconnect"}
    /\ \E r \in DOMAIN chatRooms :
          /\ chatRooms[r].owner \notin sockets
          /\ chatRooms[r].owner \in Members(chatRooms, r)
          /\ \E i \in 1..Len(out) :
                /\ out[i].ev = "owner changed"
                /\ out[i].to # {}
                /\ out[i].to = Members(chatRooms, r) \cap sockets
    /\ \A i \in 1..Len(out) : out[i].ev # "ownership transferred"

\* C33: after the owner of a room has left or disconnected and the client of
\* the new owner has handled, in order, every event the server sent it for
\* that departure, that client shows itself as owner: currentRoom.isOwner
\* is true and currentRoom.owner is its own nickname, the owner name of the
\* server's room.
C33_NewOwnerClientAgrees ==
    [][\A r \in RoomIds : \A n \in DOMAIN chatStore :
          ( /\ Transferred(r)
            /\ chatRooms'[r].owner = n
            /\ n \in sockets'
            /\ chatStore[n].id = r ) =>
              /\ chatStore'[n].isOwner
              /\ chatStore'[n].owner = Nickname(n)
              /\ chatStore'[n].owner = chatRooms'[r].ownerName]_vars

\* the places of the member list of a 'join confirmed' payload that are
\* flagged isOwner
FlaggedOwners(data) == {k \in 1..Len(data.users) : data.users[k].isOwner}

\* C34: in every 'join confirmed' exactly one listed member is flagged
\* isOwner, and it is the owner of the room, also after ownership transfers.
C34_OneOwnerInJoinConfirmed ==
    [][\A i \in 1..Len(out') :
          (last'.op = "join" /\ out'[i].ev = "join confirmed") =>
             /\ Cardinality(FlaggedOwners(out'[i].data)) = 1
             /\ \A k \in FlaggedOwners(out'[i].data) :
                   chatRooms'[last'.room].users[k].socketId
                      = chatRooms'[last'.room].owner]_vars

\* C35: 'leave confirmed' has roomDeleted true exactly when the room is not
\* in the store after the leave, and names a new owner exactly when the
\* leave changed the owner of the room, and then it is the owner's nickname.
C35_LeaveConfirmedPayload ==
    [][\A i \in 1..Len(out') :
          (last'.op = "leave" /\ out'[i].ev = "leave confirmed") =>
             /\ out'[i].to = {last'.c}
             /\ out'[i].data.roomDeleted <=> last'.room \notin DOMAIN chatRooms'
             /\ out'[i].data.newOwner # "null" <=> Transferred(last'.room)
             /\ Transferred(last'.room) =>
                   out'[i].data.newOwner = chatRooms'[last'.room].ownerName]_vars

\* the owner has left a room with members and was told who owns it now
C35_Witness ==
    /\ last.op = "leave"
    /\ last.room \in DOMAIN chatRooms
    /\ \E i \in 1..Len(out) :
          /\ out[i].ev = "leave confirmed"
          /\ ~out[i].data.roomDeleted
          /\ out[i].data.newOwner = chatRooms[last.room].ownerName
          /\ Emitted("owner changed")

\* C36: every create, join, leave or disconnect that changes the room store
\* broadcasts a 'rooms list' to all connected sockets that summarises the
\* store as it is after the event: one entry for each room that is left,
\* with the length of its member list as userCount.
C36_RoomsListFollowsStore ==
    [][(/\ last'.op \in {"create room", "join", "leave", "disconnect"}
        /\ chatRooms' # chatRooms) =>
          \E i \in 1..Len(out') :
             /\ out'[i].ev = "rooms list"
             /\ out'[i].to = sockets'
             /\ SummariesOf(out'[i].data.rooms, chatRooms')
             /\ \A j \in 1..Len(out') : out'[j].ev = "rooms list" => j = i]_vars

\* a disconnect has handed a room over, and the sockets that remain were
\* sent the summaries of the store
C36_Witness ==
    /\ last.op = "disconnect"
    /\ Emitted("owner changed")
    /\ sockets # {}
    /\ \E i \in 1..Len(out) :
          /\ out[i].ev = "rooms list"
          /\ out[i].to = sockets
          /\ Len(out[i].data.rooms) > 0
          /\ SummariesOf(out[i].data.rooms, chatRooms)

\* the Vue client of c shows room r, and c is a live member of r with a
\* session for it
StaysIn(c, r) ==
    /\ c \in DOMAIN chatStore
    /\ chatStore[c] # NoRoom
    /\ chatStore[c].id = r
    /\ c \in sockets
    /\ r \in DOMAIN chatRooms
    /\ c \in Members(chatRooms, r)
    /\ SessionRoom(c) = r

\* C37: the userCount cached by a client that is in room R equals the length
\* of the server's member list of R.
C37_ClientCountAgrees ==
    \A c \in Conns : \A r \in RoomIds :
       StaysIn(c, r) => chatStore[c].userCount = Len(chatRooms[r].users)

\* the step is a chat message that the server accepted
Accepted(o) == Len(o) = 1 /\ o[1].ev = "chat message"

\* C38: of two chat messages the server accepts one after the other, the
\* later one gets the strictly greater id; in particular the ids differ.
C38_MessageIdsIncrease ==
    [][(/\ now' = now
        /\ last.op = "chat message" /\ Accepted(out)
        /\ last'.op = "chat message" /\ Accepted(out')) =>
          IdLess(out[1].data.id, out'[1].data.id)]_vars

\* socket c owns the room its session names
OwnsSessionRoom(c) ==
    /\ connectedUsers[c].room \in DOMAIN chatRooms
    /\ chatRooms[connectedUsers[c].room].owner = c

\* C39: the isOwner flag cached in a session is true exactly when the socket
\* is the owner of the room the session names, so that the flag a disconnect
\* reads and the room.owner a leave reads agree.
C39_SessionFlagIsOwner ==
    \A c \in DOMAIN connectedUsers :
       connectedUsers[c].isOwner <=> OwnsSessionRoom(c)

====
